---- MODULE Spec2Model ----
(***************************************************************************)
(* Model of the face clustering engine (src/src/lib/face-clustering.ts)    *)
(* and of the incremental re-clustering orchestrator                       *)
(* (src/src/lib/face-processing.ts) with its IndexedDB stores.             *)
(*                                                                         *)
(* Numbers.  JavaScript numbers are modelled in fixed point: a distance,   *)
(* a threshold or a weight term is an integer count of 1/10000, so the     *)
(* default threshold 0.65 is 6500.  Descriptor coordinates are in units of *)
(* 1/10.   A mean of distances is kept as an exact fraction [n, d]; the    *)
(* fraction with d = 0 and n = 1 is Infinity, the one with n = 0 is NaN.   *)
(***************************************************************************)
EXTENDS Integers, Sequences, FiniteSets, TLC

\* ------------------------------------------------------------------------
\* Bounds of the model
\* ------------------------------------------------------------------------
MaxFaces == 3

\* Uploads (processFacesInPhoto calls) in one behaviour.
MaxUploads == 3

\* updatePersonName calls in one behaviour.
MaxRenames == 2

\* ------------------------------------------------------------------------
\* State of the clustering runs: two successive calls of clusterFaces on one
\* face map, the first with thresholds[1], the second with thresholds[2].
\* ------------------------------------------------------------------------
VARIABLES
    allFaces,        \* the Map from photo id to face list, as a sequence
    thresholds,      \* the distanceThreshold argument of each of the two calls
    run,             \* the call in progress: 1 or 2
    cpc,             \* its position: "start", "loop" or "returned"
    nodes,           \* ClusterNode[]
    distMatrix,      \* the sparse distance table, keyed by index pair
    activeIndices,   \* the indices of the nodes not yet absorbed
    rejected,        \* history: conflicting pairs rejected by the call
    returned         \* the FaceCluster[] each call returned

\* ------------------------------------------------------------------------
\* State of the orchestrator (face-processing.ts) and of the database
\* ------------------------------------------------------------------------
VARIABLES
    photos,            \* photos store: photo id -> the faces saved with it
    people,            \* people store as other transactions see it: id -> person
    tx,                \* the open readwrite transaction on the people store
    reclusterTimeout,  \* handle of the last debounce timer, 0 for null
    timers,            \* pending timers: handle -> ticks until due
    isClustering,      \* the concurrency lock
    currentState,      \* the ProcessingState subscribers are told
    ppc,               \* position of processFacesInPhoto, per photo
    calls,             \* the updatePeopleClusters invocations, in call order
    renames,           \* updatePersonName calls made
    hist               \* history: completions, bursts and timer firings

\* ------------------------------------------------------------------------
\* Arithmetic helpers
\* ------------------------------------------------------------------------
One == 10000

NaN == -1

Inf == -2

Abs(x) == IF x < 0 THEN -x ELSE x

Min(a, b) == IF a <= b THEN a ELSE b

Sq(x) == x * x

\* Math.sqrt at the resolution of the model (floor of the real square root).
Isqrt(n) == CHOOSE r \in 0..n : r * r <= n /\ (r + 1) * (r + 1) > n

\* a / b of two non-negative JavaScript numbers, the quotient scaled by One:
\* x / 0 is Infinity for x > 0 and NaN for x = 0.
JsDiv(a, b) ==
    IF b = 0 THEN (IF a = 0 THEN NaN ELSE Inf) ELSE (a * One) \div b

\* Math.abs(a - b) on numbers that may be Infinity or NaN.
JsAbsDiff(a, b) ==
    IF a = NaN \/ b = NaN THEN NaN
    ELSE IF a = Inf /\ b = Inf THEN NaN
    ELSE IF a = Inf \/ b = Inf THEN Inf
    ELSE Abs(a - b)

\* (a + b) / 2 on non-negative numbers that may be Infinity or NaN.
JsMean2(a, b) ==
    IF a = NaN \/ b = NaN THEN NaN
    ELSE IF a = Inf \/ b = Inf THEN Inf
    ELSE (a + b) \div 2

\* Math.min(a, 1): NaN if a is NaN.
JsMin1(a) == IF a = NaN THEN NaN ELSE IF a = Inf THEN One ELSE Min(a, One)

\* ------------------------------------------------------------------------
\* Faces (FaceDetection) as the detector produces them
\* ------------------------------------------------------------------------
NoLandmarks == [positions |-> <<>>, present |-> FALSE]

NoTone == [r |-> -1, g |-> -1, b |-> -1]

NoQuality == -1

Pt(px, py) == [x |-> px, y |-> py]

\* landmarks.positions, restricted to the indices the metric reads.
Landmarks(p30, p36, p45, p62) ==
    [positions |-> (30 :> p30) @@ (36 :> p36) @@ (45 :> p45) @@ (62 :> p62),
     present |-> TRUE]

\* A landmark object whose positions array is too short to hold index 62.
ShortLandmarks(p30, p36, p45) ==
    [positions |-> (30 :> p30) @@ (36 :> p36) @@ (45 :> p45),
     present |-> TRUE]

\* The appearance part of a face: everything but its id.  Descriptors have
\* one length, as the detector produces them; box widths are positive.
FullLandmarks == Landmarks(Pt(2, 3), Pt(0, 0), Pt(4, 0), Pt(2, 5))

\* Both outer eye corners on one point: the inter-eye distance is 0.
DegenerateLandmarks == Landmarks(Pt(0, 3), Pt(0, 0), Pt(0, 0), Pt(0, 5))

LookA ==
    [descriptor |-> <<0, 0>>, box |-> [width |-> 100, height |-> 100],
     landmarks |-> FullLandmarks,
     skinTone |-> [r |-> 200, g |-> 150, b |-> 120],
     score |-> 90, quality |-> 80]

LookB ==
    [descriptor |-> <<4, 0>>, box |-> [width |-> 100, height |-> 100],
     landmarks |-> FullLandmarks,
     skinTone |-> [r |-> 200, g |-> 150, b |-> 120],
     score |-> 70, quality |-> 60]

LookC ==
    [descriptor |-> <<8, 0>>, box |-> [width |-> 50, height |-> 50],
     landmarks |-> DegenerateLandmarks,
     skinTone |-> [r |-> 203, g |-> 154, b |-> 120],
     score |-> 60, quality |-> 0]

LookD ==
    [descriptor |-> <<4, 3>>, box |-> [width |-> 100, height |-> 120],
     landmarks |-> NoLandmarks,
     skinTone |-> NoTone,
     score |-> 50, quality |-> NoQuality]

Looks == {LookA, LookB, LookC, LookD}

\* `face-${Date.now()}-${random}`: ts3 is the first three digits of the
\* 13-digit millisecond timestamp, rest the remaining characters.
FaceId(n) == [ts3 |-> 179, rest |-> n]

\* id.substring(0, 8): "face-" and the first three digits of the timestamp.
Substring08(id) == id.ts3

MkFace(n, look) ==
    [id |-> FaceId(n), descriptor |-> look.descriptor, box |-> look.box,
     landmarks |-> look.landmarks, skinTone |-> look.skinTone,
     score |-> look.score, quality |-> look.quality]

\* ------------------------------------------------------------------------
\* Distance metric
\* ------------------------------------------------------------------------
\* faceapi.euclideanDistance of two descriptors of one length.
faceDistance(descriptor1, descriptor2) ==
    LET RECURSIVE SumSq(_)
        SumSq(k) == IF k = 0 THEN 0
                    ELSE Sq(descriptor1[k] - descriptor2[k]) + SumSq(k - 1)
    IN Isqrt(SumSq(Len(descriptor1)))

skinToneSimilarity(t1, t2) ==
    IF t1 = NoTone \/ t2 = NoTone THEN One
    ELSE (Isqrt(Sq(t1.r - t2.r) + Sq(t1.g - t2.g) + Sq(t1.b - t2.b)) * One * 100)
             \div 44167

\* getProp throws a TypeError when an index it reads is missing.
getPropThrows(lm) == ~ ({30, 36, 45, 62} \subseteq DOMAIN lm.positions)

getProp(lm) ==
    LET pos == lm.positions
        eyeDist == Isqrt(Sq(pos[36].x - pos[45].x) + Sq(pos[36].y - pos[45].y))
        \* twice the distance from the eye midpoint to the nose, halved
        eyeToNose == Isqrt(Sq(pos[36].x + pos[45].x - 2 * pos[30].x)
                           + Sq(pos[36].y + pos[45].y - 2 * pos[30].y)) \div 2
        noseToMouth == Isqrt(Sq(pos[30].x - pos[62].x) + Sq(pos[30].y - pos[62].y))
    IN <<JsDiv(eyeToNose, eyeDist), JsDiv(noseToMouth, eyeDist)>>

landmarkDistance(face1, face2) ==
    IF face1.landmarks.present /\ face2.landmarks.present
    THEN IF getPropThrows(face1.landmarks) \/ getPropThrows(face2.landmarks)
         THEN 0
         ELSE LET p1 == getProp(face1.landmarks)
                  p2 == getProp(face2.landmarks)
              IN JsMean2(JsAbsDiff(p1[1], p2[1]), JsAbsDiff(p1[2], p2[2]))
    ELSE 0

\* The weighted sum in units of 1/10000; NaN if a term is NaN.
calculateWeightedDistance(face1, face2) ==
    LET dist == faceDistance(face1.descriptor, face2.descriptor)
        ratioDist == (Abs(face1.box.height * face2.box.width
                          - face2.box.height * face1.box.width) * One)
                        \div (face1.box.width * face2.box.width)
        landmarkDist == JsMin1(landmarkDistance(face1, face2))
        toneDist == skinToneSimilarity(face1.skinTone, face2.skinTone)
    IN IF landmarkDist = NaN THEN NaN
       ELSE (dist * 600) + ((Min(ratioDist, One) * 5) \div 100)
            + ((landmarkDist * 20) \div 100) + ((toneDist * 15) \div 100)

\* ------------------------------------------------------------------------
\* Fractions: the values of the distance table
\* ------------------------------------------------------------------------
Frac(num, den) == [n |-> num, d |-> den]

Infinity == Frac(1, 0)

FracNaN == Frac(0, 0)

IsNaN(f) == f.n = 0 /\ f.d = 0

\* a < b of JavaScript: false when either side is NaN.
FracLt(a, b) == ~ IsNaN(a) /\ ~ IsNaN(b) /\ a.n * b.d < b.n * a.d

NumFrac(x) == IF x = NaN THEN FracNaN ELSE Frac(x, 1)

\* ------------------------------------------------------------------------
\* clusterFaces: nodes, distance table, merge loop
\* ------------------------------------------------------------------------
RECURSIVE FlatEntries(_, _)
\* The (face, photoId) entries in Map iteration order.
FlatEntries(allFacesMap, k) ==
    IF k > Len(allFacesMap) THEN <<>>
    ELSE [i \in 1..Len(allFacesMap[k].faces) |->
             [face |-> allFacesMap[k].faces[i], photoId |-> allFacesMap[k].photoId]]
         \o FlatEntries(allFacesMap, k + 1)

\* Variant: a node records its face's id where the photo id belongs.
InitNodes_PhotoIdFromFace(allFacesMap) ==
    LET es == FlatEntries(allFacesMap, 1)
    IN [i \in 1..Len(es) |->
           [id |-> es[i].face.id,
            faces |-> <<[face |-> es[i].face, photoId |-> es[i].face.id]>>,
            photoIds |-> {es[i].face.id}, merged |-> FALSE]]

\* 1. Initialize Nodes
InitNodes(allFacesMap) ==
    LET es == FlatEntries(allFacesMap, 1)
    IN [i \in 1..Len(es) |->
           [id |-> es[i].face.id, faces |-> <<es[i]>>,
            photoIds |-> {es[i].photoId}, merged |-> FALSE]]

Key(i, j) == IF i < j THEN <<i, j>> ELSE <<j, i>>

\* 2. Build Distance Matrix (Upper Triangular)
InitDistMatrix(ns, threshold) ==
    LET pairs == {p \in (1..Len(ns)) \X (1..Len(ns)) : p[1] < p[2]}
        samePhoto == {p \in pairs : ns[p[1]].photoIds = ns[p[2]].photoIds}
        d == [p \in pairs \ samePhoto |->
                 NumFrac(calculateWeightedDistance(ns[p[1]].faces[1].face,
                                                   ns[p[2]].faces[1].face))]
        below == {p \in pairs \ samePhoto : FracLt(d[p], Frac(threshold, 1))}
    IN [p \in samePhoto \cup below |-> IF p \in samePhoto THEN Infinity ELSE d[p]]

RECURSIVE SeqOfSet(_)
\* Iteration order of activeIndices: insertion order, which is ascending.
SeqOfSet(S) ==
    IF S = {} THEN <<>>
    ELSE LET m == CHOOSE x \in S : \A y \in S : x <= y
         IN <<m>> \o SeqOfSet(S \ {m})

\* The pairs (indices[i], indices[j]), i < j, in the order the scan visits them.
ScanOrder(indices) ==
    LET n == Len(indices)
        RECURSIVE Row(_, _)
        Row(i, j) == IF i >= n THEN <<>>
                     ELSE IF j > n THEN Row(i + 1, i + 2)
                     ELSE <<<<indices[i], indices[j]>>>> \o Row(i, j + 1)
    IN Row(1, 2)

NoPair == <<0, 0>>

\* Variant: the scan order is not fixed; the second call keeps the last of the
\* pairs at the least distance where the first call keeps the first.
FindMergePair_UnstableOrder(dm, active) ==
    LET order == ScanOrder(SeqOfSet(active))
        RECURSIVE Scan(_, _, _)
        Scan(k, minDist, mergePair) ==
            IF k > Len(order) THEN [mergePair |-> mergePair, minDist |-> minDist]
            ELSE LET key == Key(order[k][1], order[k][2])
                 IN IF /\ key \in DOMAIN dm
                       /\ \/ FracLt(dm[key], minDist)
                          \/ run = 2 /\ dm[key] # Infinity /\ ~ FracLt(minDist, dm[key])
                    THEN Scan(k + 1, dm[key], order[k])
                    ELSE Scan(k + 1, minDist, mergePair)
    IN Scan(1, Infinity, NoPair)

\* Variant: the scan keeps the greatest recorded distance below Infinity.
FindMergePair_Farthest(dm, active) ==
    LET order == ScanOrder(SeqOfSet(active))
        RECURSIVE Scan(_, _, _)
        Scan(k, best, mergePair) ==
            IF k > Len(order) THEN [mergePair |-> mergePair, minDist |-> best]
            ELSE LET key == Key(order[k][1], order[k][2])
                 IN IF /\ key \in DOMAIN dm
                       /\ dm[key] # Infinity
                       /\ (mergePair = NoPair \/ FracLt(best, dm[key]))
                    THEN Scan(k + 1, dm[key], order[k])
                    ELSE Scan(k + 1, best, mergePair)
    IN Scan(1, Infinity, NoPair)

\* The scan for the closest pair: the first pair with the least recorded
\* distance below Infinity.
FindMergePair(dm, active) ==
    LET order == ScanOrder(SeqOfSet(active))
        RECURSIVE Scan(_, _, _)
        Scan(k, minDist, mergePair) ==
            IF k > Len(order) THEN [mergePair |-> mergePair, minDist |-> minDist]
            ELSE LET key == Key(order[k][1], order[k][2])
                 IN IF key \in DOMAIN dm /\ FracLt(dm[key], minDist)
                    THEN Scan(k + 1, dm[key], order[k])
                    ELSE Scan(k + 1, minDist, mergePair)
    IN Scan(1, Infinity, NoPair)

\* Variant: the merge-time check is absent.
Conflict_Never(c1, c2) == FALSE

\* CHECK VALIDITY (Co-occurrence)
Conflict(c1, c2) == \E pid \in c2.photoIds : pid \in c1.photoIds

\* totalDist / count over all face pairs of two nodes.
AverageLinkage(c1, other) ==
    LET n1 == Len(c1.faces)
        n2 == Len(other.faces)
        d == [a \in 1..n1, b \in 1..n2 |->
                 calculateWeightedDistance(c1.faces[a].face, other.faces[b].face)]
        RECURSIVE Total(_, _)
        Total(a, b) ==
            IF a > n1 THEN 0
            ELSE IF b > n2 THEN Total(a + 1, 1)
            ELSE d[a, b] + Total(a, b + 1)
    IN IF \E a \in 1..n1, b \in 1..n2 : d[a, b] = NaN THEN FracNaN
       ELSE Frac(Total(1, 1), n1 * n2)

\* Variant: the merge adds c2's photo ids but not its faces.
MergeNodes_DropsFaces(ns, idx1, idx2) ==
    [ns EXCEPT ![idx1] = [@ EXCEPT !.photoIds = @ \cup ns[idx2].photoIds]]

\* Variant: the merge adds c2's faces but not its photo ids.
MergeNodes_KeepsPhotoIds(ns, idx1, idx2) ==
    [ns EXCEPT ![idx1] = [@ EXCEPT !.faces = @ \o ns[idx2].faces]]

\* MERGE c2 into c1
MergeNodes(ns, idx1, idx2) ==
    [ns EXCEPT ![idx1] = [@ EXCEPT !.faces = @ \o ns[idx2].faces,
                                   !.photoIds = @ \cup ns[idx2].photoIds]]

\* Variant: an average at or above the threshold leaves the old entry.
UpdateDistances_KeepsStale(dm, ns, active, idx1, threshold) ==
    LET others == active \ {idx1}
        avgDist == [o \in others |-> AverageLinkage(ns[idx1], ns[o])]
        setKeys == {Key(idx1, o) : o \in {x \in others : FracLt(avgDist[x], Frac(threshold, 1))}}
        other(k) == IF k[1] = idx1 THEN k[2] ELSE k[1]
    IN [k \in DOMAIN dm \cup setKeys |->
           IF k \in setKeys THEN avgDist[other(k)] ELSE dm[k]]

\* Update Distances (Average Linkage) of the merged node idx1
UpdateDistances(dm, ns, active, idx1, threshold) ==
    LET others == active \ {idx1}
        avgDist == [o \in others |-> AverageLinkage(ns[idx1], ns[o])]
        setKeys == {Key(idx1, o) : o \in {x \in others : FracLt(avgDist[x], Frac(threshold, 1))}}
        delKeys == {Key(idx1, o) : o \in others} \ setKeys
        other(k) == IF k[1] = idx1 THEN k[2] ELSE k[1]
    IN [k \in (DOMAIN dm \ delKeys) \cup setKeys |->
           IF k \in setKeys THEN avgDist[other(k)] ELSE dm[k]]

\* Variant: the entry of a rejected pair stays in the table.
DeleteKey_KeepsEntry(dm, key) == dm

\* distMatrix.delete(key)
DeleteKey(dm, key) == [k \in DOMAIN dm \ {key} |-> dm[k]]

\* One pass through the body of the merge loop: "break" when at most one node
\* is active or no recorded pair is below the threshold; "continue" when the
\* closest pair shares a photo and its entry is deleted; "merge" otherwise.
LoopIteration(st, threshold) ==
    IF Cardinality(st.activeIndices) <= 1 THEN [kind |-> "break", st |-> st]
    ELSE LET mp == FindMergePair(st.distMatrix, st.activeIndices)
             idx1 == mp.mergePair[1]
             idx2 == mp.mergePair[2]
         IN IF mp.mergePair = NoPair \/ ~ FracLt(mp.minDist, Frac(threshold, 1))
            THEN [kind |-> "break", st |-> st]
            ELSE IF Conflict(st.nodes[idx1], st.nodes[idx2])
            THEN [kind |-> "continue",
                  st |-> [st EXCEPT !.distMatrix =
                            DeleteKey(st.distMatrix, Key(idx1, idx2))]]
            ELSE LET ns == MergeNodes(st.nodes, idx1, idx2)
                     act == st.activeIndices \ {idx2}
                 IN [kind |-> "merge",
                     st |-> [nodes |-> ns, activeIndices |-> act,
                             distMatrix |-> UpdateDistances(st.distMatrix, ns, act,
                                                            idx1, threshold)]]

\* ------------------------------------------------------------------------
\* splitByCooccurrence
\* ------------------------------------------------------------------------
\* adj[i]: the indices compatible with i (another photo), ascending.
Adj(faces, i) ==
    SeqOfSet({j \in 1..Len(faces) : j # i /\ faces[i].photoId # faces[j].photoId})

RECURSIVE Bfs(_, _, _, _)
\* The breadth-first visit: returns the component's indices in visit order
\* and the visited set.
Bfs(faces, queue, visited, componentIndices) ==
    IF queue = <<>> THEN [comp |-> componentIndices, visited |-> visited]
    ELSE LET curr == Head(queue)
             fresh == SelectSeq(Adj(faces, curr), LAMBDA nb : nb \notin visited)
         IN Bfs(faces, Tail(queue) \o fresh,
                visited \cup {fresh[k] : k \in 1..Len(fresh)},
                Append(componentIndices, curr))

RECURSIVE Components(_, _, _)
Components(faces, i, visited) ==
    IF i > Len(faces) THEN <<>>
    ELSE IF i \in visited THEN Components(faces, i + 1, visited)
    ELSE LET r == Bfs(faces, <<i>>, visited \cup {i}, <<>>)
         IN <<[k \in 1..Len(r.comp) |-> faces[r.comp[k]]]>>
            \o Components(faces, i + 1, r.visited)

\* Variant: the count test reads >= 1 instead of > 1, so every entry conflicts.
HasConflict_AtLeastOnce(comp) ==
    \E a, b \in 1..Len(comp) : comp[a].photoId = comp[b].photoId

\* Validation: a component with two entries of one photo.
HasConflict(comp) ==
    \E a, b \in 1..Len(comp) : a < b /\ comp[a].photoId = comp[b].photoId

\* Variant: components are returned as found, conflicting or not.
Validate_KeepsComponents(components) == components

RECURSIVE Validate(_)
Validate(components) ==
    IF components = <<>> THEN <<>>
    ELSE LET comp == Head(components)
         IN (IF ~ HasConflict(comp) THEN <<comp>>
             ELSE [k \in 1..Len(comp) |-> <<comp[k]>>])
            \o Validate(Tail(components))

splitByCooccurrence(faces) == Validate(Components(faces, 1, {}))

\* ------------------------------------------------------------------------
\* Cluster summarizer
\* ------------------------------------------------------------------------
\* (f.quality || 0)
QualityOr0(f) == IF f.quality = NoQuality THEN 0 ELSE f.quality

RECURSIVE SortKeyed(_)
\* Array.prototype.sort with comparator key(b) - key(a), on entries [k, v]:
\* stable, descending in k.
SortKeyed(seq) ==
    IF seq = <<>> THEN <<>>
    ELSE LET rest == SortKeyed(SubSeq(seq, 1, Len(seq) - 1))
             x == seq[Len(seq)]
             before == SelectSeq(rest, LAMBDA y : y.k >= x.k)
             after == SelectSeq(rest, LAMBDA y : y.k < x.k)
         IN before \o <<x>> \o after

\* Variant: the members keep their order.
SortByQuality_Unsorted(faces) == faces

\* [...faces].sort((a, b) => (b.quality || 0) - (a.quality || 0))
SortByQuality(faces) ==
    LET sorted == SortKeyed([i \in 1..Len(faces) |->
                                [k |-> QualityOr0(faces[i]), v |-> faces[i]]])
    IN [i \in 1..Len(sorted) |-> sorted[i].v]

\* Variant: the list is returned in the order the clusters were pushed.
SortByPhotoCount_Unsorted(clusters) == clusters

\* finalClusters.sort((a, b) => b.photoCount - a.photoCount)
SortByPhotoCount(clusters) ==
    LET sorted == SortKeyed([i \in 1..Len(clusters) |->
                                [k |-> clusters[i].photoCount, v |-> clusters[i]]])
    IN [i \in 1..Len(sorted) |-> sorted[i].v]

RECURSIVE SumQuality(_)
SumQuality(fs) == IF fs = <<>> THEN 0 ELSE QualityOr0(Head(fs)) + SumQuality(Tail(fs))

\* Variant: photoCount counts the photo of the representative face only.
Summarize_CountsBestFacePhoto(subClusterFaces) ==
    LET faces == [k \in 1..Len(subClusterFaces) |-> subClusterFaces[k].face]
        sortedByQuality == SortByQuality(faces)
        bestFace == sortedByQuality[1]
    IN [id |-> <<"cluster", 1, Substring08(bestFace.id)>>,
        faceIds |-> [k \in 1..Len(faces) |-> faces[k].id],
        anchors |-> [k \in 1..Min(5, Len(sortedByQuality)) |->
                        sortedByQuality[k].descriptor],
        skinTone |-> bestFace.skinTone,
        photoCount |-> 1,
        representativeFaceId |-> bestFace.id,
        qualityScore |-> Frac(SumQuality(faces), Len(faces))]

Summarize(subClusterFaces) ==
    LET faces == [k \in 1..Len(subClusterFaces) |-> subClusterFaces[k].face]
        sortedByQuality == SortByQuality(faces)
        bestFace == sortedByQuality[1]
        uniquePhotoCount ==
            Cardinality({subClusterFaces[k].photoId : k \in 1..Len(subClusterFaces)})
    IN [id |-> <<"cluster", uniquePhotoCount, Substring08(bestFace.id)>>,
        faceIds |-> [k \in 1..Len(faces) |-> faces[k].id],
        anchors |-> [k \in 1..Min(5, Len(sortedByQuality)) |->
                        sortedByQuality[k].descriptor],
        skinTone |-> bestFace.skinTone,
        photoCount |-> uniquePhotoCount,
        representativeFaceId |-> bestFace.id,
        qualityScore |-> Frac(SumQuality(faces), Len(faces))]

RECURSIVE FormatNodes(_, _)
\* 4. Temporal Refinement (Graph Splitting) & Final formatting
FormatNodes(ns, indices) ==
    IF indices = <<>> THEN <<>>
    ELSE LET subClusters == splitByCooccurrence(ns[Head(indices)].faces)
         IN [k \in 1..Len(subClusters) |-> Summarize(subClusters[k])]
            \o FormatNodes(ns, Tail(indices))

FinalClusters(st) ==
    SortByPhotoCount(FormatNodes(st.nodes, SeqOfSet(st.activeIndices)))

\* ------------------------------------------------------------------------
\* clusterFaces as a function
\* ------------------------------------------------------------------------
InitState(allFacesMap, threshold) ==
    LET ns == InitNodes(allFacesMap)
    IN [nodes |-> ns, distMatrix |-> InitDistMatrix(ns, threshold),
        activeIndices |-> 1..Len(ns)]

RECURSIVE RunLoop(_, _)
RunLoop(st, threshold) ==
    LET it == LoopIteration(st, threshold)
    IN IF it.kind = "break" THEN st ELSE RunLoop(it.st, threshold)

Undefined == -3

DefaultThreshold == 6500

\* Variant: distanceThreshold || 0.65, which also replaces a threshold of 0.
EffectiveThreshold_Falsy(arg) ==
    IF arg = Undefined \/ arg = 0 THEN DefaultThreshold ELSE arg

\* distanceThreshold: number = 0.65 -- the default applies to a missing
\* argument only.
EffectiveThreshold(arg) == IF arg = Undefined THEN DefaultThreshold ELSE arg

clusterFaces(allFacesMap, thresholdArg) ==
    LET threshold == EffectiveThreshold(thresholdArg)
    IN IF InitNodes(allFacesMap) = <<>> THEN <<>>
       ELSE FinalClusters(RunLoop(InitState(allFacesMap, threshold), threshold))

\* ------------------------------------------------------------------------
\* The clustering runs
\* ------------------------------------------------------------------------
cvars == <<allFaces, thresholds, run, cpc, nodes, distMatrix, activeIndices,
           rejected, returned>>

ovars == <<photos, people, tx, reclusterTimeout, timers, isClustering,
           currentState, ppc, calls, renames, hist>>

vars == <<cvars, ovars>>

Thresholds == {0, 3000, DefaultThreshold}

\* Face k of the input belongs to photo photoOf[k]; the faces of one photo are
\* consecutive, as in a Map from photo id to face list.
PhotoAssignments(n) ==
    {f \in [1..n -> 1..n] :
        /\ f[1] = 1
        /\ \A k \in 1..(n - 1) : f[k + 1] \in {f[k], f[k] + 1}}

FaceMap(n, photoOf, look) ==
    LET photoIds == SeqOfSet({photoOf[k] : k \in 1..n})
    IN [p \in 1..Len(photoIds) |->
           [photoId |-> photoIds[p],
            faces |-> LET ks == SeqOfSet({k \in 1..n : photoOf[k] = photoIds[p]})
                      IN [i \in 1..Len(ks) |-> MkFace(ks[i], look[ks[i]])]]]

FaceMaps ==
    {<<>>} \cup
    UNION {{FaceMap(n, photoOf, look) :
               photoOf \in PhotoAssignments(n), look \in [1..n -> Looks]} :
           n \in 1..MaxFaces}

NoState == [nodes |-> <<>>, distMatrix |-> <<>>, activeIndices |-> {}]

CInit ==
    /\ allFaces \in FaceMaps
    /\ thresholds \in {t \in Thresholds \X Thresholds : t[1] <= t[2]}
    /\ run = 1
    /\ cpc = "start"
    /\ nodes = NoState.nodes
    /\ distMatrix = NoState.distMatrix
    /\ activeIndices = NoState.activeIndices
    /\ rejected = 0
    /\ returned = <<<<>>, <<>>>>

Threshold == EffectiveThreshold(thresholds[run])

Current == [nodes |-> nodes, distMatrix |-> distMatrix, activeIndices |-> activeIndices]

\* Lines 77-113: nodes, distance table, active set; an empty input returns [].
BuildTable ==
    /\ cpc = "start"
    /\ \E st \in {InitState(allFaces, Threshold)} :
          /\ nodes' = st.nodes
          /\ distMatrix' = st.distMatrix
          /\ activeIndices' = st.activeIndices
          /\ cpc' = IF st.nodes = <<>> THEN "returned" ELSE "loop"
    /\ rejected' = 0
    /\ UNCHANGED ovars
    /\ UNCHANGED <<allFaces, thresholds, run, returned>>

\* Lines 115-156: an iteration whose closest pair shares a photo.
RejectConflict ==
    /\ cpc = "loop"
    /\ \E it \in {LoopIteration(Current, Threshold)} :
          /\ it.kind = "continue"
          /\ distMatrix' = it.st.distMatrix
    /\ rejected' = rejected + 1
    /\ UNCHANGED ovars
    /\ UNCHANGED <<allFaces, thresholds, run, cpc, nodes, activeIndices, returned>>

\* Lines 115-148, 158-186: an iteration that merges its closest pair.
MergePair ==
    /\ cpc = "loop"
    /\ \E it \in {LoopIteration(Current, Threshold)} :
          /\ it.kind = "merge"
          /\ nodes' = it.st.nodes
          /\ distMatrix' = it.st.distMatrix
          /\ activeIndices' = it.st.activeIndices
    /\ UNCHANGED ovars
    /\ UNCHANGED <<allFaces, thresholds, run, cpc, rejected, returned>>

\* Lines 115-134, 189-224: the loop ends; repair, summaries, sort, return.
FormatAndReturn ==
    /\ cpc = "loop"
    /\ LoopIteration(Current, Threshold).kind = "break"
    /\ returned' = [returned EXCEPT ![run] = FinalClusters(Current)]
    /\ cpc' = "returned"
    /\ UNCHANGED ovars
    /\ UNCHANGED <<allFaces, thresholds, run, nodes, distMatrix, activeIndices, rejected>>

\* The caller runs clusterFaces again on the same face map.
SecondRun ==
    /\ cpc = "returned"
    /\ run = 1
    /\ run' = 2
    /\ cpc' = "start"
    /\ UNCHANGED ovars
    /\ UNCHANGED <<allFaces, thresholds, nodes, distMatrix, activeIndices, rejected, returned>>

CNext == BuildTable \/ RejectConflict \/ MergePair \/ FormatAndReturn \/ SecondRun


Returned(r) == r < run \/ (r = run /\ cpc = "returned")

InputEntries == FlatEntries(allFaces, 1)

InputFaceIds == {InputEntries[k].face.id : k \in 1..Len(InputEntries)}

PhotoOfFace(fid) ==
    LET k == CHOOSE i \in 1..Len(InputEntries) : InputEntries[i].face.id = fid
    IN InputEntries[k].photoId

SeqToSet(seq) == {seq[k] : k \in 1..Len(seq)}

\* The family of faceId sets of a cluster list.
Membership(clusters) == {SeqToSet(clusters[c].faceIds) : c \in 1..Len(clusters)}

\* Two input faces of one photo closer than the threshold of run r.
ClosePairInOnePhoto(r) ==
    \E a, b \in 1..Len(InputEntries) :
        /\ a < b
        /\ InputEntries[a].photoId = InputEntries[b].photoId
        /\ FracLt(NumFrac(calculateWeightedDistance(InputEntries[a].face,
                                                    InputEntries[b].face)),
                  Frac(EffectiveThreshold(thresholds[r]), 1))

\* C1: no cluster returned by clusterFaces holds two faces of one photo.
C1_NoTwoFacesOfOnePhoto ==
    \A r \in 1..2 : Returned(r) =>
        \A c \in 1..Len(returned[r]) :
            \A a, b \in 1..Len(returned[r][c].faceIds) :
                a # b => PhotoOfFace(returned[r][c].faceIds[a])
                         # PhotoOfFace(returned[r][c].faceIds[b])

\* A run that rejected a conflicting pair after a merge, on an input with two
\* close faces in one photo, has returned a cluster of several faces.
C1_Witness ==
    /\ cpc = "returned"
    /\ rejected > 0
    /\ ClosePairInOnePhoto(run)
    /\ \E c \in 1..Len(returned[run]) : Len(returned[run][c].faceIds) > 1

RECURSIVE ConcatFaceIds(_)
ConcatFaceIds(clusters) ==
    IF clusters = <<>> THEN <<>>
    ELSE Head(clusters).faceIds \o ConcatFaceIds(Tail(clusters))

\* C2: the faceIds lists of the returned clusters are pairwise disjoint and
\* their union is the set of input face ids.
C2_Partition ==
    \A r \in 1..2 : Returned(r) =>
        LET ids == ConcatFaceIds(returned[r])
        IN /\ SeqToSet(ids) = InputFaceIds
           /\ Len(ids) = Cardinality(InputFaceIds)

C2_Witness ==
    /\ cpc = "returned"
    /\ rejected > 0
    /\ Len(returned[run]) > 1
    /\ \E c \in 1..Len(returned[run]) : Len(returned[run][c].faceIds) > 1

C4_MonotonicThreshold ==
    (Returned(2) /\ thresholds[1] < thresholds[2]) =>
        \A c1 \in Membership(returned[1]) :
            \E c2 \in Membership(returned[2]) : c1 \subseteq c2

\* The higher threshold merged further: the second run returned fewer
\* clusters than the first, which itself had merged.
C4_Witness ==
    /\ Returned(2)
    /\ thresholds[1] < thresholds[2]
    /\ Len(returned[2]) < Len(returned[1])
    /\ \E c \in 1..Len(returned[1]) : Len(returned[1][c].faceIds) > 1

\* C5: with threshold 0 clusterFaces returns one singleton cluster per input
\* face, each with photoCount 1.
C5_ThresholdZeroSingletons ==
    \A r \in 1..2 : (Returned(r) /\ thresholds[r] = 0) =>
        /\ Len(returned[r]) = Len(InputEntries)
        /\ \A c \in 1..Len(returned[r]) :
               /\ Len(returned[r][c].faceIds) = 1
               /\ returned[r][c].photoCount = 1

\* A run at threshold 0 has returned on an input with two faces of different
\* photos at distance 0.
C5_Witness ==
    /\ cpc = "returned"
    /\ thresholds[run] = 0
    /\ \E a, b \in 1..Len(InputEntries) :
           /\ InputEntries[a].photoId # InputEntries[b].photoId
           /\ calculateWeightedDistance(InputEntries[a].face, InputEntries[b].face) = 0

\* ========================================================================
\* Orchestrator: face-processing.ts over the IndexedDB stores of db.ts
\* ========================================================================
\* The debounce delay of 500 ms, in ticks of 250 ms.
Quiet == 2

\* Photos a user may upload, in 'by-date' order.  ts3 is the id prefix the
\* detector gives the photo's faces (it changes every 10^10 ms).
Catalogue ==
    << [looks |-> <<LookA>>, ts3 |-> 179],
       [looks |-> <<LookC>>, ts3 |-> 180],
       [looks |-> <<LookB>>, ts3 |-> 179],
       [looks |-> <<>>, ts3 |-> 179] >>

PhotoIds == 1..Len(Catalogue)

\* What detectFaces resolves to for a photo: FaceDetection objects, fresh ids.
detectFaces(p) ==
    [i \in 1..Len(Catalogue[p].looks) |->
        [MkFace(10 * p + i, Catalogue[p].looks[i])
            EXCEPT !.id = [ts3 |-> Catalogue[p].ts3, rest |-> 10 * p + i]]]

\* Names: a list of words.  Auto-generated names are `Person ${i + 1}`.
PersonN(n) == <<"Person", n>>

UserNames == {<<"Alice", 0>>, <<"Bob", 0>>}

\* name.startsWith('Person ')
StartsWithPerson(name) == name[1] = "Person"

EmptyStore == <<>>

\* The mutated clear(): the stored persons stay.
Clear_LeavesStale(store) == store

\* Lines 112, 197 and db.ts 126: clear() of the people store.
Clear(store) == EmptyStore

\* store.put(value): insert under the key path 'id', replacing an equal key.
Put(store, person) ==
    [k \in DOMAIN store \cup {person.id} |->
        IF k = person.id THEN person ELSE store[k]]

\* Order of cluster ids as strings `cluster-${n}-face-${ts3}`, n one digit.
IdLt(a, b) == a[2] < b[2] \/ (a[2] = b[2] /\ a[3] < b[3])

\* getAllFromIndex('people', 'by-photo-count'): by photoCount, then by key.
getAllPeople(store) ==
    LET Before(a, b) == \/ store[a].photoCount < store[b].photoCount
                        \/ /\ store[a].photoCount = store[b].photoCount
                           /\ IdLt(a, b)
        ids == DOMAIN store
        n == Cardinality(ids)
        at(k) == CHOOSE a \in ids : Cardinality({b \in ids : Before(b, a)}) = k - 1
    IN [k \in 1..n |-> store[at(k)]]

\* getAllFromIndex('photos', 'by-date'): the photos in date order.
getAllPhotos(store) ==
    LET ids == SeqOfSet(DOMAIN store)
    IN [k \in 1..Len(ids) |-> [id |-> ids[k], faces |-> store[ids[k]]]]

\* The mutated face map: a photo without faces ends the collection.
FacesMapOf_StopsAtFaceless(allPhotos) ==
    IF \E k \in 1..Len(allPhotos) : Len(allPhotos[k].faces) = 0 THEN <<>>
    ELSE [k \in 1..Len(allPhotos) |->
             [photoId |-> allPhotos[k].id, faces |-> allPhotos[k].faces]]

\* Lines 98-106: the face map of the photos that carry faces.
FacesMapOf(allPhotos) ==
    LET RECURSIVE Build(_)
        Build(k) ==
            IF k = 0 THEN <<>>
            ELSE IF Len(allPhotos[k].faces) > 0
                 THEN Append(Build(k - 1),
                             [photoId |-> allPhotos[k].id, faces |-> allPhotos[k].faces])
                 ELSE Build(k - 1)
    IN Build(Len(allPhotos))

\* Lines 122-128: face id -> name of the person that holds it, auto-generated
\* names skipped; a later person overwrites an earlier one.
FaceToNameMap(existingPeople) ==
    LET named == {k \in 1..Len(existingPeople) :
                     ~StartsWithPerson(existingPeople[k].name)}
        holders(f) == {k \in named : f \in SeqToSet(existingPeople[k].faceIds)}
        fids == UNION {SeqToSet(existingPeople[k].faceIds) : k \in named}
    IN [f \in fids |->
           existingPeople[CHOOSE k \in holders(f) : \A m \in holders(f) : m <= k].name]

\* Lines 141-145: nameCounts, a Map in insertion order.
NameCounts(faceIds, faceToNameMap) ==
    LET RECURSIVE Count(_)
        Count(k) ==
            IF k = 0 THEN <<>>
            ELSE LET acc == Count(k - 1)
                     fid == faceIds[k]
                 IN IF fid \notin DOMAIN faceToNameMap THEN acc
                    ELSE LET name == faceToNameMap[fid]
                             at == {m \in 1..Len(acc) : acc[m].name = name}
                         IN IF at = {}
                            THEN Append(acc, [name |-> name, count |-> 1])
                            ELSE [m \in 1..Len(acc) |->
                                     IF m \in at
                                     THEN [acc[m] EXCEPT !.count = @ + 1]
                                     ELSE acc[m]]
    IN Count(Len(faceIds))

\* The mutated comparison: a later name with an equal count replaces.
BestName_LastWins(nameCounts, default) ==
    LET RECURSIVE Pick(_)
        Pick(k) ==
            IF k = 0 THEN [bestName |-> default, maxCount |-> 0]
            ELSE LET b == Pick(k - 1)
                 IN IF nameCounts[k].count >= b.maxCount
                    THEN [bestName |-> nameCounts[k].name,
                          maxCount |-> nameCounts[k].count]
                    ELSE b
    IN Pick(Len(nameCounts)).bestName

\* Lines 148-155: the name with the strictly greatest count, else the default.
BestName(nameCounts, default) ==
    LET RECURSIVE Pick(_)
        Pick(k) ==
            IF k = 0 THEN [bestName |-> default, maxCount |-> 0]
            ELSE LET b == Pick(k - 1)
                 IN IF nameCounts[k].count > b.maxCount
                    THEN [bestName |-> nameCounts[k].name,
                          maxCount |-> nameCounts[k].count]
                    ELSE b
    IN Pick(Len(nameCounts)).bestName

\* Lines 137-192: one DetectedPerson per cluster, thumbnails extracted.
PeopleToSave(clusters, faceToNameMap) ==
    [i \in 1..Len(clusters) |->
        [id |-> clusters[i].id,
         name |-> BestName(NameCounts(clusters[i].faceIds, faceToNameMap), PersonN(i)),
         faceIds |-> clusters[i].faceIds,
         photoCount |-> clusters[i].photoCount,
         thumbnailBlob |-> TRUE]]

\* The store after clear() and one put per person.
ReplaceAll(peopleToSave) ==
    LET RECURSIVE Puts(_)
        Puts(k) == IF k = 0 THEN EmptyStore ELSE Put(Puts(k - 1), peopleToSave[k])
    IN Puts(Len(peopleToSave))

\* The mutated lock test: never held.
LockHeld_Never(flag) == FALSE

\* Line 85: if (isClustering) return.
LockHeld(flag) == flag

\* The mutated write path: clear() and put() each in a transaction of its own.
SeparateTransactions == FALSE

\* Line 196: clear and puts run in one readwrite transaction on 'people'.
InOneTransaction == TRUE

\* The mutated debounce: the pending timer is left in place.
ClearTimeout_Omitted(pending, handle) == pending

\* Lines 58-60: clearTimeout(reclusterTimeout); null and fired handles no-op.
ClearTimeout(pending, handle) ==
    [h \in DOMAIN pending \ {handle} |-> pending[h]]

\* ------------------------------------------------------------------------
\* Orchestrator state machine
\* ------------------------------------------------------------------------
\* clearAllPhotos calls in one behaviour.
MaxClears == 1

\* Failures of the detector and of thumbnail extraction in one behaviour.
MaxFaults == 2

NoTx == [owner |-> 0, store |-> EmptyStore]

\* An invocation that found the lock held and returned at line 87.
DroppedCall == [pc |-> "dropped", read |-> {}, allPhotos |-> <<>>,
                existingPeople |-> <<>>, peopleToSave |-> <<>>, j |-> 0,
                removed |-> 0, skipped |-> {}]

\* An invocation that took the lock and awaits getAllPhotos.
StartedCall == [DroppedCall EXCEPT !.pc = "getAllPhotos"]

InFlight(k) == calls[k].pc \notin {"dropped", "returned", "failed"}

\* Lines 229-235: id, name, thumbnail and photo count of each person.
getPeopleWithThumbnails(store) ==
    LET all == getAllPeople(store)
    IN [k \in 1..Len(all) |->
           [id |-> all[k].id, name |-> all[k].name,
            thumbnailBlob |-> all[k].thumbnailBlob,
            photoCount |-> all[k].photoCount]]

\* A clear or a put of a reclustering has been issued and tx.done is awaited.
Writing == \E k \in 1..Len(calls) : calls[k].pc \in {"put", "done"}

\* Lines 18-20: getProcessingState, also what a new subscriber is told.
\* setState (lines 28-33) has no caller, so no action assigns currentState.
getProcessingState == currentState

\* No face has a name given by the user.
NoNames == [f \in {} |-> ""]

OInit ==
    /\ photos = EmptyStore
    /\ people = EmptyStore
    /\ tx = NoTx
    /\ reclusterTimeout = 0
    /\ timers = <<>>
    /\ isClustering = FALSE
    /\ currentState = "idle"
    /\ ppc = [p \in PhotoIds |-> "new"]
    /\ calls = <<>>
    /\ renames = 0
    /\ hist = [anyDone |-> 0, sinceAny |-> Quiet, anyCalls |-> 0, gapAny |-> Quiet,
               faceDone |-> 0, sinceFace |-> Quiet, faceCalls |-> 0, gapFace |-> Quiet,
               complete |-> EmptyStore, clears |-> 0, faults |-> 0,
               assigned |-> NoNames]

\* The clustering run driven step by step is at rest.
CIdle ==
    /\ allFaces = <<>>
    /\ thresholds = <<DefaultThreshold, DefaultThreshold>>
    /\ run = 2
    /\ cpc = "returned"
    /\ nodes = NoState.nodes
    /\ distMatrix = NoState.distMatrix
    /\ activeIndices = NoState.activeIndices
    /\ rejected = 0
    /\ returned = <<<<>>, <<>>>>

\* A processFacesInPhoto call returns; withFaces when it armed the timer.
Completion(h, withFaces) ==
    LET a == [h EXCEPT !.anyDone = IF h.sinceAny < Quiet THEN h.anyDone + 1 ELSE 1,
                       !.anyCalls = IF h.sinceAny < Quiet THEN h.anyCalls ELSE 0,
                       !.sinceAny = 0]
    IN IF ~withFaces THEN a
       ELSE [a EXCEPT !.faceDone = IF timers # <<>> THEN h.faceDone + 1 ELSE 1,
                      !.faceCalls = IF timers # <<>> THEN h.faceCalls ELSE 0,
                      !.sinceFace = 0]

\* UploadDropzone.tsx 121-125: the new photo is stored without faces and
\* processFacesInPhoto is called; it awaits detectFaces.
StartUpload(p) ==
    /\ ppc[p] = "new"
    /\ Cardinality({q \in PhotoIds : ppc[q] # "new"}) < MaxUploads
    /\ ppc' = [ppc EXCEPT ![p] = "detectFaces"]
    /\ photos' = [q \in DOMAIN photos \cup {p} |-> IF q = p THEN <<>> ELSE photos[q]]
    /\ UNCHANGED <<cvars, currentState, people, tx, reclusterTimeout, timers, isClustering,
                   calls, renames, hist>>

\* Lines 44-53: detectFaces resolves; no face returns the photo at once,
\* otherwise savePhoto(updatedPhoto) is awaited.
DetectResolves(p) ==
    /\ ppc[p] = "detectFaces"
    /\ IF Len(detectFaces(p)) = 0
       THEN /\ ppc' = [ppc EXCEPT ![p] = "returned"]
            /\ hist' = Completion(hist, FALSE)
       ELSE /\ ppc' = [ppc EXCEPT ![p] = "savePhoto"]
            /\ hist' = hist
    /\ UNCHANGED <<cvars, currentState, photos, people, tx, reclusterTimeout, timers,
                   isClustering, calls, renames>>

\* Lines 55-66: the photo is stored with its faces, the pending timer is
\* cancelled and a new one armed, and the call returns.
SaveResolves(p) ==
    /\ ppc[p] = "savePhoto"
    /\ photos' = [q \in DOMAIN photos \cup {p} |->
                     IF q = p THEN detectFaces(p) ELSE photos[q]]
    /\ \E handle \in {reclusterTimeout + 1} :
          /\ timers' = [h \in DOMAIN ClearTimeout(timers, reclusterTimeout)
                                \cup {handle} |->
                           IF h = handle THEN Quiet ELSE timers[h]]
          /\ reclusterTimeout' = handle
    /\ ppc' = [ppc EXCEPT ![p] = "returned"]
    /\ hist' = Completion(hist, TRUE)
    /\ UNCHANGED <<cvars, currentState, people, tx, isClustering, calls, renames>>

\* 250 ms pass.  A due timer fires before more time passes.
Tick ==
    /\ \A h \in DOMAIN timers : timers[h] > 0
    /\ timers # <<>> \/ hist.sinceAny < Quiet \/ hist.sinceFace < Quiet
    /\ timers' = [h \in DOMAIN timers |-> timers[h] - 1]
    /\ hist' = [hist EXCEPT !.sinceAny = Min(@ + 1, Quiet),
                            !.sinceFace = Min(@ + 1, Quiet)]
    /\ UNCHANGED <<cvars, currentState, photos, people, tx, reclusterTimeout, isClustering,
                   ppc, calls, renames>>

\* Lines 62-64, 84-95: the timer callback calls updatePeopleClusters, which
\* returns if the lock is held and otherwise takes it and awaits getAllPhotos.
TimerFires(h) ==
    /\ h \in DOMAIN timers
    /\ timers[h] = 0
    /\ timers' = [g \in DOMAIN timers \ {h} |-> timers[g]]
    /\ IF LockHeld(isClustering)
       THEN /\ calls' = Append(calls, DroppedCall)
            /\ isClustering' = isClustering
       ELSE /\ calls' = Append(calls, StartedCall)
            /\ isClustering' = TRUE
    /\ hist' = [hist EXCEPT !.anyCalls = @ + 1, !.gapAny = hist.sinceAny,
                            !.faceCalls = @ + 1, !.gapFace = hist.sinceFace]
    /\ UNCHANGED <<cvars, currentState, photos, people, tx, reclusterTimeout, ppc, renames>>

\* Lines 95-108, 119-121: getAllPhotos resolves; the face map is built.
ReadPhotos(k) ==
    /\ k \in DOMAIN calls
    /\ calls[k].pc = "getAllPhotos"
    /\ \E all \in {getAllPhotos(photos)} :
          calls' = [calls EXCEPT
                       ![k].allPhotos = all,
                       ![k].read = DOMAIN photos,
                       ![k].pc = IF FacesMapOf(all) = <<>> THEN "clearPeople"
                                 ELSE "getAllPeople"]
    /\ UNCHANGED <<cvars, currentState, photos, people, tx, reclusterTimeout, timers,
                   isClustering, ppc, renames, hist>>

\* Lines 108-116: no face anywhere; the people store is cleared.
ClearPeople(k) ==
    /\ k \in DOMAIN calls
    /\ calls[k].pc = "clearPeople"
    /\ tx.owner = 0
    /\ people' = Clear(people)
    /\ hist' = [hist EXCEPT !.complete = EmptyStore, !.assigned = NoNames]
    /\ isClustering' = FALSE
    /\ calls' = [calls EXCEPT ![k] = [DroppedCall EXCEPT
                                         !.pc = "returned",
                                         !.read = calls[k].read,
                                         !.removed = Cardinality(DOMAIN people)]]
    /\ UNCHANGED <<cvars, currentState, photos, tx, reclusterTimeout, timers, ppc, renames>>

\* Lines 121-193: getAllPeople resolves; names are collected, the faces are
\* clustered with the default threshold, and the people to save are built.
\* Thumbnail extraction and getDB touch no shared state.
ReadPeople(k) ==
    /\ k \in DOMAIN calls
    /\ calls[k].pc = "getAllPeople"
    /\ \E existing \in {getAllPeople(people)} :
          calls' = [calls EXCEPT
                       ![k].existingPeople = existing,
                       ![k].peopleToSave =
                           PeopleToSave(clusterFaces(FacesMapOf(calls[k].allPhotos),
                                                     Undefined),
                                        FaceToNameMap(existing)),
                       ![k].pc = "clear"]
    /\ UNCHANGED <<cvars, currentState, photos, people, tx, reclusterTimeout, timers,
                   isClustering, ppc, renames, hist>>

\* Lines 196-197: the transaction opens and clear() is applied in it.
TxClear(k) ==
    /\ k \in DOMAIN calls
    /\ calls[k].pc = "clear"
    /\ tx.owner = 0
    /\ IF InOneTransaction
       THEN /\ tx' = [owner |-> k, store |-> Clear(people)]
            /\ people' = people
       ELSE /\ tx' = tx
            /\ people' = Clear(people)
    /\ calls' = [calls EXCEPT ![k].pc = "put", ![k].j = 1]
    /\ UNCHANGED <<cvars, currentState, photos, reclusterTimeout, timers, isClustering, ppc,
                   renames, hist>>

\* Lines 198-200: one put per person.
TxPut(k) ==
    /\ k \in DOMAIN calls
    /\ calls[k].pc = "put"
    /\ calls[k].j <= Len(calls[k].peopleToSave)
    /\ IF InOneTransaction
       THEN /\ tx' = [tx EXCEPT !.store = Put(@, calls[k].peopleToSave[calls[k].j])]
            /\ people' = people
       ELSE /\ tx' = tx
            /\ people' = Put(people, calls[k].peopleToSave[calls[k].j])
    /\ calls' = [calls EXCEPT ![k].j = @ + 1]
    /\ UNCHANGED <<cvars, currentState, photos, reclusterTimeout, timers, isClustering, ppc,
                   renames, hist>>

\* Lines 198-209: the loop ends, tx.done resolves: the transaction commits,
\* the lock is released.
TxDone(k) ==
    /\ k \in DOMAIN calls
    /\ calls[k].pc = "put"
    /\ calls[k].j > Len(calls[k].peopleToSave)
    /\ IF InOneTransaction
       THEN /\ people' = tx.store
            /\ tx' = NoTx
       ELSE /\ people' = people
            /\ tx' = tx
    /\ hist' = [hist EXCEPT !.complete = ReplaceAll(calls[k].peopleToSave)]
    /\ isClustering' = FALSE
    /\ calls' = [calls EXCEPT ![k] = [DroppedCall EXCEPT !.pc = "returned",
                                                         !.read = calls[k].read]]
    /\ UNCHANGED <<cvars, currentState, photos, reclusterTimeout, timers, ppc, renames>>

\* db.ts 152-161: updatePersonName, one readwrite transaction.  For an id
\* that is not stored it returns at line 155 and leaves the state as it is.
Rename(id, newName) ==
    /\ renames < MaxRenames
    /\ tx.owner = 0
    /\ id \in DOMAIN people
    /\ renames' = renames + 1
    /\ people' = [people EXCEPT ![id].name = newName]
    /\ hist' = [hist EXCEPT
                   !.complete = IF id \in DOMAIN @
                                THEN [@ EXCEPT ![id].name = newName] ELSE @,
                   !.assigned = [f \in DOMAIN @ \cup SeqToSet(people[id].faceIds) |->
                                    IF f \in SeqToSet(people[id].faceIds)
                                    THEN newName ELSE @[f]]]
    /\ UNCHANGED <<cvars, currentState, photos, tx, reclusterTimeout, timers, isClustering,
                   ppc, calls>>

\* db.ts 123-129: clearAllPhotos, one transaction over both stores.
ClearAll ==
    /\ hist.clears < MaxClears
    /\ tx.owner = 0
    /\ photos # EmptyStore
    /\ photos' = EmptyStore
    /\ people' = Clear(people)
    /\ hist' = [hist EXCEPT !.complete = EmptyStore, !.clears = @ + 1,
                            !.assigned = NoNames]
    /\ UNCHANGED <<cvars, currentState, tx, reclusterTimeout, timers, isClustering, ppc,
                   calls, renames>>

Init == CIdle /\ OInit

\* Invocations and timer handles are numbered in order of creation; each
\* upload creates at most one of each.
CallIds == 1..MaxUploads

\* Keys a person can be stored under: `cluster-${photoCount}-${prefix}`.
PersonIds ==
    {<<"cluster", n, Catalogue[p].ts3>> : n \in PhotoIds, p \in PhotoIds}

Next ==
    \/ \E p \in PhotoIds : StartUpload(p)
    \/ \E p \in PhotoIds : DetectResolves(p)
    \/ \E p \in PhotoIds : SaveResolves(p)
    \/ Tick
    \/ \E h \in CallIds : TimerFires(h)
    \/ \E k \in CallIds : ReadPhotos(k)
    \/ \E k \in CallIds : ClearPeople(k)
    \/ \E k \in CallIds : ReadPeople(k)
    \/ \E k \in CallIds : TxClear(k)
    \/ \E k \in CallIds : TxPut(k)
    \/ \E k \in CallIds : TxDone(k)
    \/ \E id \in PersonIds, newName \in UserNames : Rename(id, newName)
    \/ ClearAll

Spec == Init /\ [][Next]_vars

\* One clusterFaces call followed step by step, the orchestrator at rest.
ClusterInit == CInit /\ OInit

SpecCluster == ClusterInit /\ [][CNext]_vars

\* ------------------------------------------------------------------------
\* clusterFaces on an album of one person
\* ------------------------------------------------------------------------
AlbumSize == 6

\* (quality, score) of a face; the last has no quality.
Grades == {<<80, 90>>, <<60, 70>>, <<NoQuality, 95>>}

\* One person's face at a given grade; the descriptor tells the grades apart
\* and stays within the default threshold of the others.
AlbumLook(g) ==
    [LookA EXCEPT !.descriptor = <<g[2] \div 10 - 7, 0>>,
                  !.quality = g[1], !.score = g[2]]

\* AlbumSize faces of one person: one per photo at any grades, or, at one
\* grade, the last two in one photo.
Albums ==
    {FaceMap(AlbumSize, [k \in 1..AlbumSize |-> k], look) :
        look \in [1..AlbumSize -> {AlbumLook(g) : g \in Grades}]}
    \cup {FaceMap(AlbumSize,
                  [k \in 1..AlbumSize |-> IF k = AlbumSize THEN k - 1 ELSE k],
                  [k \in 1..AlbumSize |-> AlbumLook(g)]) : g \in Grades}

AlbumInit ==
    /\ allFaces \in Albums
    /\ thresholds = <<DefaultThreshold, DefaultThreshold>>
    /\ run = 1
    /\ cpc = "start"
    /\ nodes = NoState.nodes
    /\ distMatrix = NoState.distMatrix
    /\ activeIndices = NoState.activeIndices
    /\ rejected = 0
    /\ returned = <<<<>>, <<>>>>
    /\ OInit

SpecAlbum == AlbumInit /\ [][CNext]_vars

\* ------------------------------------------------------------------------
\* Failures of the environment
\* ------------------------------------------------------------------------
\* The mutated skip: the person is kept, without a thumbnail.
SkipPerson_KeepsPerson(peopleToSave, n) ==
    [peopleToSave EXCEPT ![n].thumbnailBlob = FALSE]

\* Line 180: if (!thumbnailBlob) continue; nothing is pushed for the cluster.
SkipPerson(peopleToSave, n) ==
    [m \in 1..(Len(peopleToSave) - 1) |->
        IF m < n THEN peopleToSave[m] ELSE peopleToSave[m + 1]]

\* Detection fails: loadFaceDetectionModel rejects (part_006 line 239) and
\* the catch of lines 67-70 returns the photo, or an error inside detectFaces
\* resolves to [] (part_006 lines 396-398) and line 48 returns the photo.
DetectFails(p) ==
    /\ ppc[p] = "detectFaces"
    /\ hist.faults < MaxFaults
    /\ ppc' = [ppc EXCEPT ![p] = "failed"]
    /\ hist' = [Completion(hist, FALSE) EXCEPT !.faults = @ + 1]
    /\ UNCHANGED <<cvars, currentState, photos, people, tx, reclusterTimeout, timers,
                   isClustering, calls, renames>>

\* Lines 172-180: extractFaceThumbnail rejects for the cluster that would
\* have become entry n of peopleToSave; the loop continues without it.
ThumbnailFails(k, n) ==
    /\ k \in DOMAIN calls
    /\ calls[k].pc = "clear"
    /\ hist.faults < MaxFaults
    /\ n \in 1..Len(calls[k].peopleToSave)
    /\ calls' = [calls EXCEPT
                    ![k].peopleToSave = SkipPerson(@, n),
                    ![k].skipped = @ \cup {calls[k].peopleToSave[n].faceIds}]
    /\ hist' = [hist EXCEPT !.faults = @ + 1]
    /\ UNCHANGED <<cvars, currentState, photos, people, tx, reclusterTimeout, timers,
                   isClustering, ppc, renames>>

NextFaults ==
    \/ \E p \in PhotoIds : StartUpload(p)
    \/ \E p \in PhotoIds : DetectResolves(p)
    \/ \E p \in PhotoIds : DetectFails(p)
    \/ \E p \in PhotoIds : SaveResolves(p)
    \/ Tick
    \/ \E h \in CallIds : TimerFires(h)
    \/ \E k \in CallIds : ReadPhotos(k)
    \/ \E k \in CallIds : ReadPeople(k)
    \/ \E k \in CallIds, n \in PhotoIds : ThumbnailFails(k, n)
    \/ \E k \in CallIds : TxClear(k)
    \/ \E k \in CallIds : TxPut(k)
    \/ \E k \in CallIds : TxDone(k)

\* Uploads and reclustering with a failing detector and failing thumbnails;
\* the user neither renames nor clears.
SpecFaults == Init /\ [][NextFaults]_vars

\* Variant: the writes issued before the failure stay in the store.
Abort_KeepsWrites(store, working) == working

\* An aborted transaction leaves the store as it was when it began.
Abort(store, working) == store

\* Lines 92-209: something inside the try block of run k throws or rejects:
\* getAllPhotos, getAllPeople or clusterFaces, getDB or db.transaction, or,
\* once the transaction is open, a request or the commit, which aborts it.
\* The catch logs the error, the finally releases the lock, the call resolves.
RunFails(k) ==
    /\ k \in DOMAIN calls
    /\ calls[k].pc \in {"getAllPhotos", "getAllPeople", "clear", "put"}
    /\ hist.faults < MaxFaults
    /\ IF tx.owner = k
       THEN /\ people' = Abort(people, tx.store)
            /\ tx' = NoTx
       ELSE /\ people' = people
            /\ tx' = tx
    /\ isClustering' = FALSE
    /\ calls' = [calls EXCEPT ![k] = [DroppedCall EXCEPT !.pc = "failed",
                                                         !.read = calls[k].read]]
    /\ hist' = [hist EXCEPT !.faults = @ + 1]
    /\ UNCHANGED <<cvars, currentState, photos, reclusterTimeout, timers, ppc, renames>>

NextRunFaults ==
    \/ \E p \in PhotoIds : StartUpload(p)
    \/ \E p \in PhotoIds : DetectResolves(p)
    \/ \E p \in PhotoIds : SaveResolves(p)
    \/ Tick
    \/ \E h \in CallIds : TimerFires(h)
    \/ \E k \in CallIds : ReadPhotos(k)
    \/ \E k \in CallIds : ReadPeople(k)
    \/ \E k \in CallIds : TxClear(k)
    \/ \E k \in CallIds : TxPut(k)
    \/ \E k \in CallIds : TxDone(k)
    \/ \E k \in CallIds : RunFails(k)

\* Uploads and reclustering in which a run can fail at any of its awaits.
SpecRunFaults == Init /\ [][NextRunFaults]_vars

\* ------------------------------------------------------------------------
\* Claims about the orchestrator
\* ------------------------------------------------------------------------
NoTimerDue == \A h \in DOMAIN timers : timers[h] > 0

\* C6 as stated, for completions of any outcome: once the quiet period has
\* passed after the last completion of a burst the timer has invoked
\* updatePeopleClusters exactly once, after that quiet period, and not before.
C6_AnyCompletionDebounced ==
    /\ (hist.anyDone >= 1 /\ hist.sinceAny = Quiet /\ NoTimerDue)
           => (hist.anyCalls = 1 /\ hist.gapAny = Quiet)
    /\ (hist.anyDone >= 1 /\ hist.sinceAny < Quiet) => hist.anyCalls = 0

\* C6: completions that detected a face, each arriving while the timer armed
\* by the previous one is pending, leave at most one timer pending, cause no
\* invocation while it is pending, and exactly one, a full quiet period after
\* the last of them, once it has fired.
C6_FaceCompletionsDebounced ==
    /\ Cardinality(DOMAIN timers) <= 1
    /\ \A h \in DOMAIN timers : timers[h] = Quiet - hist.sinceFace
    /\ timers # <<>> => hist.faceCalls = 0
    /\ (timers = <<>> /\ hist.faceDone >= 1)
           => (hist.faceCalls = 1 /\ hist.gapFace = Quiet)

\* A burst of two face-bearing completions has been answered by one call.
C6_Witness ==
    /\ hist.faceDone >= 2
    /\ timers = <<>>
    /\ hist.faceCalls = 1

\* C7: at most one invocation is past the lock at any time, and an invocation
\* that found the lock held stays returned: it never reads, clusters or writes.
C7_OneRunAtATime ==
    /\ [](Cardinality({k \in 1..Len(calls) : InFlight(k)}) <= 1)
    /\ [][\A k \in 1..Len(calls) :
              calls[k].pc = "dropped" => calls'[k] = DroppedCall]_vars

\* An invocation was dropped while an earlier one is in flight.
C7_Witness ==
    \E j, k \in 1..Len(calls) :
        j < k /\ InFlight(j) /\ calls[k].pc = "dropped"

\* The user-assigned names that a face of the new cluster carried before.
PriorNames(existingPeople, fid) ==
    {existingPeople[n].name : n \in
        {m \in 1..Len(existingPeople) :
            /\ fid \in SeqToSet(existingPeople[m].faceIds)
            /\ ~StartsWithPerson(existingPeople[m].name)}}

Voters(existingPeople, faceIds) ==
    {m \in 1..Len(faceIds) : PriorNames(existingPeople, faceIds[m]) # {}}

Votes(existingPeople, faceIds, name) ==
    Cardinality({m \in Voters(existingPeople, faceIds) :
                    name \in PriorNames(existingPeople, faceIds[m])})

FirstVote(existingPeople, faceIds, name) ==
    CHOOSE m \in Voters(existingPeople, faceIds) :
        /\ name \in PriorNames(existingPeople, faceIds[m])
        /\ \A n \in Voters(existingPeople, faceIds) :
              name \in PriorNames(existingPeople, faceIds[n]) => m <= n

Named(k) == calls[k].pc \in {"clear", "put"}

\* C8: every person a reclustering is about to save carries the user-assigned
\* name most of its faces carried before, the name met first in face order on
\* a tie, and an auto-generated name when none of its faces carried one.
C8_NameByMajorityVote ==
    \A k \in 1..Len(calls) : Named(k) =>
        \A i \in 1..Len(calls[k].peopleToSave) :
            LET person == calls[k].peopleToSave[i]
                old == calls[k].existingPeople
                names == UNION {PriorNames(old, person.faceIds[m]) :
                                   m \in 1..Len(person.faceIds)}
            IN IF names = {} THEN person.name = PersonN(i)
               ELSE /\ person.name \in names
                    /\ \A other \in names \ {person.name} :
                          \/ Votes(old, person.faceIds, other)
                                 < Votes(old, person.faceIds, person.name)
                          \/ /\ Votes(old, person.faceIds, other)
                                    = Votes(old, person.faceIds, person.name)
                             /\ FirstVote(old, person.faceIds, person.name)
                                    < FirstVote(old, person.faceIds, other)

\* A cluster whose faces carried two names with equal votes, and a new face.
C8_Witness ==
    \E k \in 1..Len(calls) : Named(k) /\
        \E i \in 1..Len(calls[k].peopleToSave) :
            LET person == calls[k].peopleToSave[i]
                old == calls[k].existingPeople
            IN /\ \E a, b \in UserNames :
                     /\ a # b
                     /\ Votes(old, person.faceIds, a) >= 1
                     /\ Votes(old, person.faceIds, a) = Votes(old, person.faceIds, b)
               /\ Cardinality(Voters(old, person.faceIds)) < Len(person.faceIds)

\* C9: at every instant a read of the people store returns a complete person
\* set: the one the last committed transaction wrote, never a partial mix.
C9_ReadersSeeCompleteSets ==
    getPeopleWithThumbnails(people) = getPeopleWithThumbnails(hist.complete)

\* A reclustering has cleared the store and written part of its people while
\* readers still get the previous, non-empty set.
C9_Witness ==
    \E k \in 1..Len(calls) :
        /\ calls[k].pc = "put"
        /\ calls[k].j > 1
        /\ calls[k].j <= Len(calls[k].peopleToSave)
        /\ people # EmptyStore
        /\ getPeopleWithThumbnails(people) = getPeopleWithThumbnails(hist.complete)

\* No upload is being processed, no timer is pending, no run is in flight.
Quiescent ==
    /\ \A p \in PhotoIds : ppc[p] \in {"new", "returned", "failed"}
    /\ timers = <<>>
    /\ \A k \in 1..Len(calls) : ~InFlight(k)

\* C10: once the system is quiescent the last completed reclustering has read
\* every stored photo that has faces.
C10_LastRunReadEveryPhoto ==
    Quiescent =>
        LET withFaces == {p \in DOMAIN photos : Len(photos[p]) > 0}
            done == {k \in 1..Len(calls) : calls[k].pc = "returned"}
        IN withFaces # {} =>
               /\ done # {}
               /\ withFaces \subseteq
                      calls[CHOOSE k \in done : \A m \in done : m <= k].read

\* C11: a run that found no face in any stored photo finishes with the people
\* store empty and the lock released.
C11_EmptyInputClearsPeople ==
    [][\A k \in CallIds :
          (/\ k \in DOMAIN calls
           /\ calls[k].pc = "clearPeople"
           /\ calls'[k].pc # "clearPeople")
              => (people' = EmptyStore /\ isClustering' = FALSE)]_vars

\* A run without faces has finished and removed persons of an earlier run.
C11_Witness ==
    \E k \in DOMAIN calls :
        /\ calls[k].pc = "returned"
        /\ calls[k].removed > 0
        /\ people = EmptyStore
        /\ isClustering = FALSE

\* The clusters a run computed from the photos it read.
ClustersOf(k) == clusterFaces(FacesMapOf(calls[k].allPhotos), Undefined)

\* The ids of the faces in the photos a run read.
FaceIdsRead(k) ==
    UNION {{calls[k].allPhotos[n].faces[i].id :
               i \in 1..Len(calls[k].allPhotos[n].faces)} :
           n \in 1..Len(calls[k].allPhotos)}

C14_StateFollowsWork ==
    getProcessingState =
        IF isClustering THEN "clustering"
        ELSE IF \E p \in PhotoIds : ppc[p] = "detectFaces" THEN "detecting"
        ELSE "idle"

\* ------------------------------------------------------------------------
\* Claims about the distance metric, the repair and the summaries
\* ------------------------------------------------------------------------
\* The faces of the input once the distance table has been built from them.
ComparedFaces ==
    IF cpc = "start" THEN {}
    ELSE {InputEntries[k].face : k \in 1..Len(InputEntries)}

\* C15: the distance of every two faces is a number, is not negative, and is
\* the same in both directions.
C15_DistanceSymmetricNonNegative ==
    \A a, b \in ComparedFaces :
        /\ calculateWeightedDistance(a, b) # NaN
        /\ calculateWeightedDistance(a, b) >= 0
        /\ calculateWeightedDistance(a, b) = calculateWeightedDistance(b, a)

\* Landmarks that are absent, lack an index the metric reads, or have both
\* outer eye corners on one point.
Malformed(lm) ==
    \/ ~lm.present
    \/ getPropThrows(lm)
    \/ (lm.positions[36].x = lm.positions[45].x
           /\ lm.positions[36].y = lm.positions[45].y)

\* C16: when the landmarks of either face are missing or malformed the
\* landmark term is 0 and the distance is an ordinary number.
C16_MalformedLandmarksContributeZero ==
    \A a, b \in ComparedFaces :
        (Malformed(a.landmarks) \/ Malformed(b.landmarks)) =>
            /\ JsMin1(landmarkDistance(a, b)) = 0
            /\ calculateWeightedDistance(a, b) \notin {NaN, Inf}
            /\ calculateWeightedDistance(a, b) >= 0

\* Every cluster that can be formed of the input's entries: each non-empty
\* sequence of distinct entries, valid or not.
Arrangements ==
    LET n == Len(InputEntries)
    IN UNION {{[k \in 1..m |-> InputEntries[f[k]]] :
                 f \in {g \in [1..m -> 1..n] :
                           \A a, b \in 1..m : a # b => g[a] # g[b]}} :
              m \in 1..n}

\* No two entries of the cluster come from one photo.
ValidCluster(c) ==
    \A a, b \in 1..Len(c) : a # b => c[a].photoId # c[b].photoId

\* The clusters the run hands to the repair: the faces of its active nodes.
RepairedNodes ==
    IF cpc = "returned" THEN {nodes[i].faces : i \in activeIndices} ELSE {}

\* The clusters the repair is applied to: those of each run, and, once per
\* input (after its first run with the default thresholds), every arrangement.
RepairInputs ==
    IF cpc = "returned" /\ run = 1
          /\ thresholds = <<DefaultThreshold, DefaultThreshold>>
    THEN Arrangements \cup RepairedNodes
    ELSE RepairedNodes

\* C17: the repair returns a valid cluster as one group with the same faces
\* in the same order, and returns every group of any of its outputs unchanged.
C17_RepairIdempotent ==
    \A c \in RepairInputs :
        \A groups \in {splitByCooccurrence(c)} :
            /\ ValidCluster(c) => groups = <<c>>
            /\ \A k \in 1..Len(groups) :
                  splitByCooccurrence(groups[k]) = <<groups[k]>>

\* A run has returned whose repair kept a cluster of several photos whole, and
\* some cluster of the same entries is split into several groups.
C17_Witness ==
    /\ \E c \in RepairedNodes : Len(c) >= 2 /\ ValidCluster(c)
    /\ \E c \in RepairInputs : ~ValidCluster(c) /\ Len(splitByCooccurrence(c)) >= 2

\* C18: every cluster a run returned counts as many photos as it has faces.
C18_PhotoCountIsFaceCount ==
    \A r \in 1..2 : Returned(r) =>
        \A k \in 1..Len(returned[r]) :
            returned[r][k].photoCount = Len(returned[r][k].faceIds)

\* A run returned a cluster of several faces from an input in which one
\* photo holds two faces.
C18_Witness ==
    /\ Returned(1)
    /\ \E k \in 1..Len(returned[1]) : Len(returned[1][k].faceIds) >= 2
    /\ ~ValidCluster(InputEntries)

\* C19: the list a run returned is in descending order of photoCount.
C19_SortedByPhotoCount ==
    \A r \in 1..2 : Returned(r) =>
        \A k \in 1..(Len(returned[r]) - 1) :
            returned[r][k].photoCount >= returned[r][k + 1].photoCount

\* A run returned a larger cluster after which a smaller one follows, the
\* larger one built from faces that come later in the input.
C19_Witness ==
    /\ Returned(1)
    /\ Len(returned[1]) >= 2
    /\ returned[1][1].photoCount > returned[1][2].photoCount
    /\ returned[1][2].faceIds[1] = InputEntries[1].face.id

\* ------------------------------------------------------------------------
\* Claim about names given by the user
\* ------------------------------------------------------------------------
\* The faces of a person that the user's latest rename gave the name n.
AssignedTo(faceIds, n) ==
    {f \in SeqToSet(faceIds) : f \in DOMAIN hist.assigned /\ hist.assigned[f] = n}

\* C20: when a re-cluster run completes, every person it stored whose faces
\* are in their majority faces the user named n bears the name n, whenever
\* the rename committed, also between the run's read of the people and its
\* write.
C20_RenameCarriedForward ==
    [][\A k \in CallIds :
          (k \in DOMAIN calls /\ calls[k].pc = "put" /\ calls'[k].pc = "returned") =>
              \A id \in DOMAIN people' : \A n \in UserNames :
                  2 * Cardinality(AssignedTo(people'[id].faceIds, n))
                        > Len(people'[id].faceIds)
                      => people'[id].name = n]_vars

\* ------------------------------------------------------------------------
\* Claims about the merge loop
\* ------------------------------------------------------------------------
\* Pairs of active clusters that share no photo.
DisjointPairs ==
    {p \in activeIndices \X activeIndices :
        p[1] < p[2] /\ nodes[p[1]].photoIds \cap nodes[p[2]].photoIds = {}}

\* The mean of the metric over all face pairs across two current clusters.
MeanDistance(p) == AverageLinkage(nodes[p[1]], nodes[p[2]])

BelowThreshold(f) == FracLt(f, Frac(Threshold, 1))

FracEq(a, b) == IsNaN(a) = IsNaN(b) /\ a.n * b.d = b.n * a.d

\* C22: a merge joins a photo-disjoint pair of active clusters whose mean
\* distance is below the threshold and not above that of any other active
\* photo-disjoint pair; when the loop stops no such pair is below the
\* threshold.
C22_MergesClosestDisjointPair ==
    [][/\ (cpc = "loop" /\ nodes' # nodes) =>
             \E p \in DisjointPairs :
                 /\ activeIndices' = activeIndices \ {p[2]}
                 /\ nodes'[p[1]].faces = nodes[p[1]].faces \o nodes[p[2]].faces
                 /\ BelowThreshold(MeanDistance(p))
                 /\ \A q \in DisjointPairs : ~ FracLt(MeanDistance(q), MeanDistance(p))
       /\ (cpc = "loop" /\ cpc' = "returned") =>
             \A q \in DisjointPairs : ~ BelowThreshold(MeanDistance(q))]_vars

\* A run merged a pair into a cluster of two and then merged a third face
\* into it, and it rejected a conflicting pair on the way.
C22_Witness ==
    /\ cpc = "returned"
    /\ rejected >= 1
    /\ \E i \in activeIndices : Len(nodes[i].faces) >= 2

RECURSIVE Flatten(_)
Flatten(groups) ==
    IF groups = <<>> THEN <<>> ELSE Head(groups) \o Flatten(Tail(groups))

\* C24: the groups the repair returns hold every entry of its input exactly
\* once, no group holds two entries of one photo, and a component with two
\* entries of one photo comes back as one single-entry group per entry.
C24_RepairPartitionsWithoutConflict ==
    \A c \in RepairInputs :
        \A groups \in {splitByCooccurrence(c)} :
            /\ Len(Flatten(groups)) = Len(c)
            /\ SeqToSet(Flatten(groups)) = SeqToSet(c)
            /\ \A k \in 1..Len(groups) : ValidCluster(groups[k])
            /\ \A comps \in {Components(c, 1, {})} :
                  \A k \in 1..Len(comps) :
                      HasConflict(comps[k]) =>
                          \A e \in SeqToSet(comps[k]) : <<e>> \in SeqToSet(groups)

\* The repair is applied to three entries of which two share a photo and
\* which form one component: it returns three single-entry groups.
C24_Witness ==
    \E c \in RepairInputs :
        /\ Len(c) = 3
        /\ Len(Components(c, 1, {})) = 1
        /\ ~ ValidCluster(c)
        /\ Len(splitByCooccurrence(c)) = 3

\* C29: when the loop has ended, the repair returns each active cluster as
\* one group equal to it, and the run returns as many clusters as there are
\* active nodes.
C29_RepairLeavesLoopResult ==
    cpc = "returned" =>
        /\ \A i \in activeIndices :
              /\ ValidCluster(nodes[i].faces)
              /\ splitByCooccurrence(nodes[i].faces) = <<nodes[i].faces>>
        /\ Len(returned[run]) = Cardinality(activeIndices)

\* A run that rejected a conflicting pair has returned a merged cluster
\* next to a face of one of that cluster's photos.
C29_Witness ==
    /\ cpc = "returned"
    /\ rejected >= 1
    /\ Cardinality(activeIndices) = 2
    /\ \E i, j \in activeIndices :
          /\ i # j
          /\ Len(nodes[i].faces) = 2
          /\ nodes[j].photoIds \subseteq nodes[i].photoIds

\* Each iteration that stays in the loop removes an active cluster or, with
\* the active clusters unchanged, an entry of the table.
LoopProgress ==
    (cpc = "loop" /\ cpc' = "loop") =>
        \/ /\ activeIndices' \subseteq activeIndices
           /\ Cardinality(activeIndices') = Cardinality(activeIndices) - 1
        \/ /\ activeIndices' = activeIndices
           /\ nodes' = nodes
           /\ DOMAIN distMatrix' \subseteq DOMAIN distMatrix
           /\ DOMAIN distMatrix' # DOMAIN distMatrix

\* C28: the merge loop terminates: every step of it lowers the pair (number
\* of active clusters, number of table entries) in lexicographic order, so
\* no run can stay in the loop for ever or return to a rejected pair without
\* a merge in between.
C28_MergeLoopTerminates == [][LoopProgress]_vars

\* The second run has returned after a merge and a rejected conflict.
C28_Witness ==
    /\ cpc = "returned"
    /\ run = 2
    /\ rejected = 1
    /\ Cardinality(activeIndices) < Len(nodes)

\* The member faces of a returned cluster, in member order.
MemberFaces(cl) ==
    LET es == InputEntries
    IN [k \in 1..Len(cl.faceIds) |->
           es[CHOOSE i \in 1..Len(es) : es[i].face.id = cl.faceIds[k]].face]

\* Member a ranks before member b: higher quality, a face without quality
\* counting as 0, and the earlier member among equals.
RanksBefore(fs, a, b) ==
    \/ QualityOr0(fs[a]) > QualityOr0(fs[b])
    \/ QualityOr0(fs[a]) = QualityOr0(fs[b]) /\ a < b

\* The member with exactly k - 1 members ranking before it.
Ranked(fs, k) ==
    fs[CHOOSE a \in 1..Len(fs) :
           Cardinality({b \in 1..Len(fs) : RanksBefore(fs, b, a)}) = k - 1]

\* C25: the anchors of every returned cluster are the descriptors of its
\* min(5, n) best members in descending quality; the representative face is
\* the best member, one of the cluster's faces, and gives the skin tone.
C25_AnchorsAndRepresentative ==
    \A r \in 1..2 : Returned(r) =>
        \A c \in 1..Len(returned[r]) :
            \A cl \in {returned[r][c]} : \A fs \in {MemberFaces(returned[r][c])} :
                /\ Len(cl.anchors) = Min(5, Len(fs))
                /\ \A k \in 1..Len(cl.anchors) :
                      cl.anchors[k] = Ranked(fs, k).descriptor
                /\ \A best \in {Ranked(fs, 1)} :
                      /\ cl.representativeFaceId = best.id
                      /\ cl.skinTone = best.skinTone
                /\ cl.representativeFaceId \in SeqToSet(cl.faceIds)

\* A cluster of six faces was returned with five anchors; its best member
\* is not its first, and the member left out has the least quality.
C25_Witness ==
    /\ Returned(1)
    /\ \E c \in 1..Len(returned[1]) :
          /\ Len(returned[1][c].faceIds) = 6
          /\ Len(returned[1][c].anchors) = 5
          /\ returned[1][c].representativeFaceId # returned[1][c].faceIds[1]
          /\ \A k \in 1..5 :
                returned[1][c].anchors[k]
                    # Ranked(MemberFaces(returned[1][c]), 6).descriptor

\* The rank the specification gives a face: its quality, or its detector
\* score when it has no quality.
QualityOrScore(f) == IF f.quality = NoQuality THEN f.score ELSE f.quality

\* C26: the ordering behind the anchors and the representative face ranks a
\* face without quality by its score: the representative face has the
\* greatest rank of the cluster, and no member left out of the anchors
\* outranks an anchor.
C26_AbsentQualityRankedByScore ==
    \A r \in 1..2 : Returned(r) =>
        \A c \in 1..Len(returned[r]) :
            \A cl \in {returned[r][c]} : \A fs \in {MemberFaces(returned[r][c])} :
                /\ \A a \in 1..Len(fs) :
                      cl.representativeFaceId = fs[a].id =>
                          \A b \in 1..Len(fs) :
                              QualityOrScore(fs[a]) >= QualityOrScore(fs[b])
                /\ \A a, b \in 1..Len(fs) :
                      (/\ fs[a].descriptor \in SeqToSet(cl.anchors)
                       /\ fs[b].descriptor \notin SeqToSet(cl.anchors))
                          => QualityOrScore(fs[a]) >= QualityOrScore(fs[b])

\* ------------------------------------------------------------------------
\* Claims about clearAllPhotos, cluster ids and failures inside a run
\* ------------------------------------------------------------------------
\* C30: once clearAllPhotos has completed and every upload, timer and run
\* has finished, with no photo stored since, the people store is empty.
C30_NoPersonsAfterClear ==
    (hist.clears >= 1 /\ photos = EmptyStore /\ Quiescent) => people = EmptyStore

\* C21: a failure inside a run is not fatal: the store holds what the last
\* run that completed wrote, so a failed run has left it as it found it;
\* the lock is held only while a run is in flight; a failed run has returned.
C21_RunFailureNotFatal ==
    /\ people = hist.complete
    /\ isClustering = (\E k \in 1..Len(calls) : InFlight(k))
    /\ \A k \in 1..Len(calls) :
          calls[k].pc = "failed" => tx.owner # k

\* A run failed while persons of an earlier run were stored, and a later
\* timer has started the next run.
C21_Witness ==
    \E k, m \in 1..Len(calls) :
        /\ k < m
        /\ calls[k].pc = "failed"
        /\ calls[m].pc \notin {"dropped", "failed"}
        /\ people # EmptyStore

\* C27: the clusters one run returns have pairwise different ids.
C27_DistinctClusterIds ==
    \A r \in 1..2 : Returned(r) =>
        \A a, b \in 1..Len(returned[r]) :
            a # b => returned[r][a].id # returned[r][b].id

====
